---- MODULE Spec2Model ----
(***************************************************************************)
(* A model of the AR two-point measuring page (src/script.js).             *)
(*                                                                         *)
(* The program's state is the module-level variables of script.js, the     *)
(* fields of the DOM elements and three.js objects it writes, and the      *)
(* part of the WebXR platform it talks to (the running session, the        *)
(* hit-test acquisitions in flight, the 'end' listeners).  Every handler   *)
(* of script.js is an operator from a state record to a state record, so   *)
(* that a handler calling another (the action button running onSelect      *)
(* from its click listener and again from its onclick property) is a       *)
(* composition of operators.                                               *)
(*                                                                         *)
(* Lengths are integers in millimetres.  A decimal number is a pair        *)
(* num/den; toFixed2 rounds it to two decimals as Number.toFixed does.     *)
(***************************************************************************)
EXTENDS Integers, Sequences, FiniteSets, TLC

VARIABLES
    hitTestSource,           \* script.js:7   NoSource, or the session that produced the source
    hitTestSourceRequested,  \* script.js:8
    points,                  \* script.js:11  sequence of [mesh, vec]
    measurementLine,         \* script.js:12  NoObject, or the line object
    measureUnit,             \* script.js:13
    reticle,                 \* script.js:74-80  [visible, matrix]
    scene,                   \* script.js:31  the marker and line objects in the scene
    actionBtn,               \* script.js:14  [innerText, disabled, opacity, onclick]
    instructionText,         \* script.js:15  innerText
    p1Label,                 \* script.js:20  innerText
    p2Label,                 \* script.js:21  innerText
    distLabel,               \* script.js:22  innerText
    introDisplay,            \* style.display of #intro-screen
    uiDisplay,               \* style.display of #ar-ui
    xrSession,               \* the running XRSession (NoSession when none)
    sessionsStarted,         \* how many sessions have been started so far
    pending,                 \* sessions whose hit-test acquisition has not resolved
    hitTestRequests,         \* per session: acquisitions issued by render
    endListeners,            \* per session: 'end' listeners registered by render
    lastOp,                  \* history: the handler that ran last
    preLen,                  \* history: points.length when that handler started
    lastFrame                \* history: what the last frame's hit test returned

vars == <<hitTestSource, hitTestSourceRequested, points, measurementLine,
          measureUnit, reticle, scene, actionBtn, instructionText, p1Label,
          p2Label, distLabel, introDisplay, uiDisplay, xrSession,
          sessionsStarted, pending, hitTestRequests, endListeners,
          lastOp, preLen, lastFrame>>

----------------------------------------------------------------------------
(* Bounds *)

\* Number of tracking sessions a behaviour may start.
MaxSessions == 2

Sessions == 1 .. MaxSessions

\* null as the value of hitTestSource, and "no session is running".
NoSource == 0
NoSession == 0

\* null as the value of measurementLine and of actionBtn.onclick.
NoObject == [kind |-> "none", id |-> 0]
NoHandler == "null"

\* Where a hit test can put the reticle, in millimetres.  Every pair of
\* these positions is a whole number of millimetres apart, so distanceTo's
\* square root is exact, and no coordinate or distance falls on a rounding
\* tie of toFixed(2).
HitPositions == { <<0, 0, 0>>, <<1000, 0, 0>>, <<0, 264, -702>> }

\* frame.getHitTestResults: an empty list or one hit (only [0] is read).
HitTestResults == { <<>> } \cup { <<p>> : p \in HitPositions }

Units == { "m", "cm", "in", "ft" }

----------------------------------------------------------------------------
(* Numbers and formatting *)

Abs(n) == IF n < 0 THEN 0 - n ELSE n

\* The largest r in lo .. hi with r * r <= n, by bisection.
RECURSIVE SqrtBetween(_, _, _)
SqrtBetween(n, lo, hi) ==
    IF lo >= hi THEN lo
    ELSE LET mid == (lo + hi + 1) \div 2
         IN  IF mid * mid <= n THEN SqrtBetween(n, mid, hi)
                               ELSE SqrtBetween(n, lo, mid - 1)

\* Math.sqrt on a perfect square (46340 is the largest root of an int).
Sqrt(n) == SqrtBetween(n, 0, IF n < 46340 THEN n ELSE 46340)

TwoDigits(n) == IF n < 10 THEN "0" \o ToString(n) ELSE ToString(n)

\* Number.prototype.toFixed(2) of num/den (den a positive multiple of 100):
\* the sign, then the magnitude rounded to hundredths.
toFixed2(num, den) ==
    LET h == den \div 100
        n == (2 * Abs(num) + h) \div (2 * h)
    IN  (IF num < 0 THEN "-" ELSE "")
            \o ToString(n \div 100) \o "." \o TwoDigits(n % 100)

\* Vector3.distanceTo, millimetres.
distanceTo(a, b) ==
    Sqrt((a[1] - b[1]) * (a[1] - b[1]) + (a[2] - b[2]) * (a[2] - b[2])
            + (a[3] - b[3]) * (a[3] - b[3]))

\* The switch with the inch and foot factors exchanged.
UnitFactor_InFtSwapped(unit) ==
    CASE unit = "m"  -> <<1, 1>>
      [] unit = "cm" -> <<100, 1>>
      [] unit = "in" -> <<328084, 100000>>
      [] unit = "ft" -> <<393701, 10000>>

\* The switch of calculateDistance: the factor from metres as num/den.
UnitFactor(unit) ==
    CASE unit = "m"  -> <<1, 1>>
      [] unit = "cm" -> <<100, 1>>
      [] unit = "in" -> <<393701, 10000>>
      [] unit = "ft" -> <<328084, 100000>>

formatCoord(vec) ==
    "(" \o toFixed2(vec[1], 1000) \o ", " \o toFixed2(vec[2], 1000)
        \o ", " \o toFixed2(vec[3], 1000) \o ")"

----------------------------------------------------------------------------
(* The state as one record, so that handlers compose *)

S == [ hitTestSource          |-> hitTestSource,
       hitTestSourceRequested |-> hitTestSourceRequested,
       points                 |-> points,
       measurementLine        |-> measurementLine,
       measureUnit            |-> measureUnit,
       reticle                |-> reticle,
       scene                  |-> scene,
       actionBtn              |-> actionBtn,
       instructionText        |-> instructionText,
       p1Label                |-> p1Label,
       p2Label                |-> p2Label,
       distLabel              |-> distLabel,
       introDisplay           |-> introDisplay,
       uiDisplay              |-> uiDisplay,
       pending                |-> pending,
       hitTestRequests        |-> hitTestRequests,
       endListeners           |-> endListeners ]

Apply(r) ==
    /\ hitTestSource' = r.hitTestSource
    /\ hitTestSourceRequested' = r.hitTestSourceRequested
    /\ points' = r.points
    /\ measurementLine' = r.measurementLine
    /\ measureUnit' = r.measureUnit
    /\ reticle' = r.reticle
    /\ scene' = r.scene
    /\ actionBtn' = r.actionBtn
    /\ instructionText' = r.instructionText
    /\ p1Label' = r.p1Label
    /\ p2Label' = r.p2Label
    /\ distLabel' = r.distLabel
    /\ introDisplay' = r.introDisplay
    /\ uiDisplay' = r.uiDisplay
    /\ pending' = r.pending
    /\ hitTestRequests' = r.hitTestRequests
    /\ endListeners' = r.endListeners

\* new THREE.Mesh / new THREE.Line: an object that is not in the scene yet.
NewObject(s, kind) ==
    [ kind |-> kind,
      id   |-> CHOOSE i \in 1 .. Cardinality(s.scene) + 1 :
                 /\ [kind |-> kind, id |-> i] \notin s.scene
                 /\ \A j \in 1 .. i - 1 : [kind |-> kind, id |-> j] \in s.scene ]

----------------------------------------------------------------------------
(* The handlers of script.js *)

drawLine(s) ==
    IF Len(s.points) < 2 THEN s
    ELSE LET line == NewObject(s, "line")
         IN  [s EXCEPT !.measurementLine = line,
                       !.scene = @ \cup {line}]

calculateDistance(s) ==
    IF Len(s.points) < 2 THEN [s EXCEPT !.distLabel = "0.00"]
    ELSE LET distance == distanceTo(s.points[1].vec, s.points[2].vec)
             factor   == UnitFactor(s.measureUnit)
         IN  [s EXCEPT !.distLabel =
                  toFixed2(distance * factor[1], 1000 * factor[2])]

\* updateUIState that relabels the button at 2 points but leaves it enabled.
updateUIState_NoDisable(s) ==
    IF Len(s.points) = 1 THEN
        [s EXCEPT !.actionBtn.innerText = "Set Point 2",
                  !.instructionText = "Move camera to target. Tap 'Set Point 2'.",
                  !.p1Label = formatCoord(s.points[1].vec),
                  !.actionBtn.onclick = "onSelect"]
    ELSE IF Len(s.points) = 2 THEN
        calculateDistance(drawLine(
            [s EXCEPT !.actionBtn.innerText = "Complete",
                      !.instructionText = "Measurement Complete.",
                      !.p2Label = formatCoord(s.points[2].vec)]))
    ELSE s

updateUIState(s) ==
    IF Len(s.points) = 1 THEN
        [s EXCEPT !.actionBtn.innerText = "Set Point 2",
                  !.instructionText = "Move camera to target. Tap 'Set Point 2'.",
                  !.p1Label = formatCoord(s.points[1].vec),
                  !.actionBtn.onclick = "onSelect"]
    ELSE IF Len(s.points) = 2 THEN
        calculateDistance(drawLine(
            [s EXCEPT !.actionBtn.innerText = "Complete",
                      !.actionBtn.disabled = TRUE,
                      !.actionBtn.opacity = "0.5",
                      !.instructionText = "Measurement Complete.",
                      !.p2Label = formatCoord(s.points[2].vec)]))
    ELSE s

\* onSelect without the "already measured" return.
onSelect_NoLimit(s) ==
    IF s.reticle.visible THEN
        LET mesh == NewObject(s, "mesh")
        IN  updateUIState(
               [s EXCEPT !.scene = @ \cup {mesh},
                         !.points = Append(@, [mesh |-> mesh,
                                               vec  |-> s.reticle.matrix])])
    ELSE s

\* onSelect returning only when points.length > 2.
onSelect_OffByOne(s) ==
    IF s.reticle.visible THEN
        IF Len(s.points) > 2 THEN s
        ELSE LET mesh == NewObject(s, "mesh")
             IN  updateUIState(
                    [s EXCEPT !.scene = @ \cup {mesh},
                              !.points = Append(@, [mesh |-> mesh,
                                                    vec  |-> s.reticle.matrix])])
    ELSE s

\* onSelect without the reticle.visible test.
onSelect_NoReticleCheck(s) ==
    IF Len(s.points) >= 2 THEN s
    ELSE LET mesh == NewObject(s, "mesh")
         IN  updateUIState(
                [s EXCEPT !.scene = @ \cup {mesh},
                          !.points = Append(@, [mesh |-> mesh,
                                                vec  |-> s.reticle.matrix])])

\* onSelect that hides the reticle after a capture, so that the next
\* capture needs a fresh frame.
onSelect_HidesReticle(s) ==
    IF s.reticle.visible THEN
        IF Len(s.points) >= 2 THEN s
        ELSE LET mesh == NewObject(s, "mesh")
             IN  updateUIState(
                    [s EXCEPT !.scene = @ \cup {mesh},
                              !.reticle.visible = FALSE,
                              !.points = Append(@, [mesh |-> mesh,
                                                    vec  |-> s.reticle.matrix])])
    ELSE s

\* onSelect that puts the new point first (unshift instead of push).
onSelect_Unshift(s) ==
    IF s.reticle.visible THEN
        IF Len(s.points) >= 2 THEN s
        ELSE LET mesh == NewObject(s, "mesh")
             IN  updateUIState(
                    [s EXCEPT !.scene = @ \cup {mesh},
                              !.points = <<[mesh |-> mesh,
                                            vec  |-> s.reticle.matrix]>> \o @])
    ELSE s

onSelect(s) ==
    IF s.reticle.visible THEN
        IF Len(s.points) >= 2 THEN s
        ELSE LET mesh == NewObject(s, "mesh")
             IN  updateUIState(
                    [s EXCEPT !.scene = @ \cup {mesh},
                              !.points = Append(@, [mesh |-> mesh,
                                                    vec  |-> s.reticle.matrix])])
    ELSE s

\* resetMeasurement that removes the markers but not the line.
resetMeasurement_KeepLine(s) ==
    [s EXCEPT !.scene = @ \ { s.points[i].mesh : i \in 1 .. Len(s.points) },
              !.points = <<>>,
              !.measurementLine = NoObject,
              !.actionBtn.innerText = "Set Point 1",
              !.actionBtn.disabled = FALSE,
              !.actionBtn.opacity = "1",
              !.instructionText = "Aim at a surface and tap Set Point 1.",
              !.p1Label = "---",
              !.p2Label = "---",
              !.distLabel = "0.00"]

\* resetMeasurement that leaves the distance label as it is.
resetMeasurement_KeepDistance(s) ==
    [s EXCEPT !.scene = (@ \ { s.points[i].mesh : i \in 1 .. Len(s.points) })
                            \ (IF s.measurementLine # NoObject
                               THEN {s.measurementLine} ELSE {}),
              !.points = <<>>,
              !.measurementLine = NoObject,
              !.actionBtn.innerText = "Set Point 1",
              !.actionBtn.disabled = FALSE,
              !.actionBtn.opacity = "1",
              !.instructionText = "Aim at a surface and tap Set Point 1.",
              !.p1Label = "---",
              !.p2Label = "---"]

resetMeasurement(s) ==
    [s EXCEPT !.scene = (@ \ { s.points[i].mesh : i \in 1 .. Len(s.points) })
                            \ (IF s.measurementLine # NoObject
                               THEN {s.measurementLine} ELSE {}),
              !.points = <<>>,
              !.measurementLine = NoObject,
              !.actionBtn.innerText = "Set Point 1",
              !.actionBtn.disabled = FALSE,
              !.actionBtn.opacity = "1",
              !.instructionText = "Aim at a surface and tap Set Point 1.",
              !.p1Label = "---",
              !.p2Label = "---",
              !.distLabel = "0.00"]

\* A 'change' listener that stores the unit and does not recompute.
unitChange_NoRecompute(s, value) ==
    [s EXCEPT !.measureUnit = value]

\* A 'change' listener that refreshes the whole UI instead of the distance.
unitChange_UpdatesUI(s, value) ==
    updateUIState([s EXCEPT !.measureUnit = value])

\* The unit selector's 'change' listener.
unitChange(s, value) ==
    calculateDistance([s EXCEPT !.measureUnit = value])

\* The start button's 'click' listener.
startClick(s) ==
    [s EXCEPT !.introDisplay = "none", !.uiDisplay = "block"]

\* The action button's 'click' listener.
actionBtnClick(s) == onSelect(s)

\* One press of the action button: the click event reaches the 'click'
\* listener and then the onclick handler, if one was set when the event
\* was dispatched (stopPropagation does not stop listeners of the target).
actionBtnPress(s) ==
    IF s.actionBtn.onclick # NoHandler
    THEN onSelect(actionBtnClick(s))
    ELSE actionBtnClick(s)

\* An 'end' listener that drops the source but leaves the requested flag set.
endListener_KeepsRequested(s) ==
    [s EXCEPT !.hitTestSource = NoSource,
              !.introDisplay = "flex",
              !.uiDisplay = "none"]

\* The session's 'end' listener registered by render.
endListener(s) ==
    [s EXCEPT !.hitTestSourceRequested = FALSE,
              !.hitTestSource = NoSource,
              !.introDisplay = "flex",
              !.uiDisplay = "none"]

\* The callback of the requestHitTestSource promise of `session`.
hitTestSourceResolved(s, session) ==
    [s EXCEPT !.hitTestSource = session,
              !.pending = @ \ {session}]

\* render, step 2: request the hit-test source (once).
requestHitTestSource(s, session) ==
    IF s.hitTestSourceRequested = FALSE THEN
        [s EXCEPT !.pending = @ \cup {session},
                  !.hitTestRequests[session] = @ + 1,
                  !.endListeners[session] = @ + 1,
                  !.hitTestSourceRequested = TRUE]
    ELSE s

\* What frame.getHitTestResults does for this frame: nothing is asked
\* without a source; a source of another session is unknown to the frame
\* and the call throws; otherwise the frame's results are returned.
HitTestOutcome(s, session, results) ==
    IF s.hitTestSource = NoSource THEN "nosource"
    ELSE IF s.hitTestSource # session THEN "threw"
    ELSE IF Len(results) > 0 THEN "hit"
    ELSE "empty"

\* Step 3 showing the reticle on every hit, whatever points.length is.
performHitTest_NoCompleteCheck(s, session, results) ==
    IF s.hitTestSource # NoSource THEN
        IF HitTestOutcome(s, session, results) = "threw" THEN s
        ELSE IF Len(results) > 0 THEN
            [s EXCEPT !.reticle = [visible |-> TRUE, matrix |-> results[1]],
                      !.instructionText =
                          IF Len(s.points) = 0
                          THEN "Surface detected. Tap 'Set Point 1'."
                          ELSE @]
        ELSE
            [s EXCEPT !.reticle.visible = FALSE,
                      !.instructionText =
                          IF Len(s.points) < 2
                          THEN "Aim at floor/wall to detect surface."
                          ELSE @]
    ELSE s

\* render, step 3: perform the hit test.
performHitTest(s, session, results) ==
    IF s.hitTestSource # NoSource THEN
        IF HitTestOutcome(s, session, results) = "threw" THEN s
        ELSE IF Len(results) > 0 /\ Len(s.points) < 2 THEN
            [s EXCEPT !.reticle = [visible |-> TRUE, matrix |-> results[1]],
                      !.instructionText =
                          IF Len(s.points) = 0
                          THEN "Surface detected. Tap 'Set Point 1'."
                          ELSE @]
        ELSE
            [s EXCEPT !.reticle.visible = FALSE,
                      !.instructionText =
                          IF Len(s.points) < 2
                          THEN "Aim at floor/wall to detect surface."
                          ELSE @]
    ELSE s

\* render(timestamp, frame) with a frame of `session`.
render(s, session, results) ==
    performHitTest(requestHitTestSource(s, session), session, results)

----------------------------------------------------------------------------
(* Initial state *)

\* The page as loaded: the texts and styles of the elements script.js
\* looks up, before any handler has written them.
InitialDocument ==
    /\ actionBtn = [ innerText |-> "Set Point 1", disabled |-> FALSE,
                     opacity |-> "1", onclick |-> NoHandler ]
    /\ instructionText = "Aim at floor/wall to detect surface."
    /\ p1Label = "---"
    /\ p2Label = "---"
    /\ distLabel = "0.00"
    /\ introDisplay = "flex"
    /\ uiDisplay = "none"

Init ==
    /\ hitTestSource = NoSource
    /\ hitTestSourceRequested = FALSE
    /\ points = <<>>
    /\ measurementLine = NoObject
    /\ measureUnit = "m"
    /\ reticle = [visible |-> FALSE, matrix |-> <<0, 0, 0>>]
    /\ scene = {}
    /\ InitialDocument
    /\ xrSession = NoSession
    /\ sessionsStarted = 0
    /\ pending = {}
    /\ hitTestRequests = [s \in Sessions |-> 0]
    /\ endListeners = [s \in Sessions |-> 0]
    /\ lastOp = "init"
    /\ preLen = 0
    /\ lastFrame = "none"

----------------------------------------------------------------------------
(* Actions: one per event the page handles *)

Ran(op, frameOutcome) ==
    /\ lastOp' = op
    /\ preLen' = Len(points)
    /\ lastFrame' = frameOutcome

\* The user presses the start button and the AR session starts.
StartSession ==
    /\ xrSession = NoSession
    /\ sessionsStarted < MaxSessions
    /\ Apply(startClick(S))
    /\ xrSession' = sessionsStarted + 1
    /\ sessionsStarted' = sessionsStarted + 1
    /\ Ran("start", "none")

\* The animation loop calls render with a frame of the running session.
Frame ==
    /\ xrSession # NoSession
    /\ \E results \in HitTestResults :
          /\ Apply(render(S, xrSession, results))
          /\ Ran("frame", HitTestOutcome(requestHitTestSource(S, xrSession),
                                          xrSession, results))
    /\ UNCHANGED <<xrSession, sessionsStarted>>

\* The controller's 'select' event (a tap on the screen).
Select ==
    /\ xrSession # NoSession
    /\ Apply(onSelect(S))
    /\ Ran("select", "none")
    /\ UNCHANGED <<xrSession, sessionsStarted>>

\* A press of the action button; a disabled button receives no click.
ActionButton ==
    /\ ~actionBtn.disabled
    /\ Apply(actionBtnPress(S))
    /\ Ran("button", "none")
    /\ UNCHANGED <<xrSession, sessionsStarted>>

\* A press of the reset button.
Reset ==
    /\ Apply(resetMeasurement(S))
    /\ Ran("reset", "none")
    /\ UNCHANGED <<xrSession, sessionsStarted>>

\* The user picks another unit in the unit selector.
UnitChange ==
    /\ \E value \in Units \ {measureUnit} : Apply(unitChange(S, value))
    /\ Ran("unit", "none")
    /\ UNCHANGED <<xrSession, sessionsStarted>>

\* The running session ends: its 'end' listeners run.
SessionEnd ==
    /\ xrSession # NoSession
    /\ Apply(IF endListeners[xrSession] > 0 THEN endListener(S) ELSE S)
    /\ xrSession' = NoSession
    /\ Ran("end", "none")
    /\ UNCHANGED sessionsStarted

\* A requestHitTestSource promise resolves.  The platform decides when, and
\* the callback runs whether or not the session that asked is still running.
ResolveHitTestSource ==
    /\ \E session \in pending : Apply(hitTestSourceResolved(S, session))
    /\ Ran("resolve", "none")
    /\ UNCHANGED <<xrSession, sessionsStarted>>

Next ==
    \/ StartSession
    \/ Frame
    \/ Select
    \/ ActionButton
    \/ Reset
    \/ UnitChange
    \/ SessionEnd
    \/ ResolveHitTestSource

Spec == Init /\ [][Next]_vars

----------------------------------------------------------------------------
(* The session phase of the design (a function of the point count and the *)
(* reticle's visibility; script.js stores no phase)                       *)

Phase ==
    CASE Len(points) = 0 /\ ~reticle.visible -> "AWAITING_SURFACE"
      [] Len(points) = 0 /\ reticle.visible  -> "AIMING_P1"
      [] Len(points) = 1 /\ ~reticle.visible -> "POINT1_SET"
      [] Len(points) = 1 /\ reticle.visible  -> "AIMING_P2"
      [] OTHER                               -> "COMPLETE"

UserAction == {"select", "button"}

----------------------------------------------------------------------------
(* Properties *)

\* C1: the number of captured points is always 0, 1 or 2, and no step
\* other than resetMeasurement makes it smaller.
C1_PointCount ==
    /\ [](Len(points) \in {0, 1, 2})
    /\ [][Len(points') >= Len(points) \/ lastOp' = "reset"]_vars

\* C1 witness: a frame update has run with two points captured.
C1_Witness ==
    lastOp = "frame" /\ preLen = 2 /\ Len(points) = 2

\* C2 (as claimed): after the session's 'end' listener has run, no point is
\* captured, no marker or line is in the scene, the intro screen is shown
\* and the AR overlay is hidden.
C2_SessionEndResets ==
    (lastOp = "end" /\ endListeners[sessionsStarted] > 0) =>
        /\ Len(points) = 0
        /\ scene = {}
        /\ introDisplay = "flex"
        /\ uiDisplay = "none"

\* C3: after resetMeasurement there are no points, no marker and no line,
\* the labels show "---" and "0.00", the action button is enabled and reads
\* "Set Point 1", and the phase is AWAITING_SURFACE or AIMING_P1 according
\* to the reticle.
C3_ResetClears ==
    lastOp = "reset" =>
        /\ Len(points) = 0
        /\ scene = {}
        /\ measurementLine = NoObject
        /\ p1Label = "---"
        /\ p2Label = "---"
        /\ distLabel = "0.00"
        /\ actionBtn.disabled = FALSE
        /\ actionBtn.innerText = "Set Point 1"
        /\ Phase = IF reticle.visible THEN "AIMING_P1" ELSE "AWAITING_SURFACE"

\* C3 witness: a reset of a complete measurement whose reticle is still
\* visible.
C3_Witness ==
    lastOp = "reset" /\ preLen = 2 /\ reticle.visible

\* C4: with two points captured, a user action changes neither the points
\* nor the displayed distance, the scene, the line, the coordinate labels
\* or the action button.
C4_IdempotentInComplete ==
    [][(lastOp' \in UserAction /\ Len(points) = 2) =>
          UNCHANGED <<points, distLabel, scene, measurementLine, p1Label,
                      p2Label, actionBtn>>]_vars

\* C4 witness: onSelect ran with two points captured and the reticle
\* visible, so only the point count made it return.
C4_Witness ==
    lastOp = "select" /\ preLen = 2 /\ reticle.visible

\* C5: a user action while the reticle is not visible changes nothing of
\* the points, the scene, the labels, the instruction or the action button.
C5_IgnoredWithoutReticle ==
    [][(lastOp' \in UserAction /\ ~reticle.visible) =>
          UNCHANGED <<points, scene, measurementLine, p1Label, p2Label,
                      distLabel, instructionText, actionBtn>>]_vars

\* C5 witness: the action button was pressed with one point captured, its
\* onclick handler set and the reticle hidden.
C5_Witness ==
    /\ lastOp = "button"
    /\ ~reticle.visible
    /\ preLen = 1
    /\ actionBtn.onclick # NoHandler

\* C6: after a frame whose hit test returned results, the reticle is
\* visible exactly if the results are non-empty and fewer than 2 points are
\* captured; and once hidden with 2 points it stays hidden until a reset.
C6_ReticleFollowsHitTest ==
    /\ []((lastOp = "frame" /\ lastFrame \in {"empty", "hit"}) =>
            (reticle.visible <=> (lastFrame = "hit" /\ Len(points) < 2)))
    /\ [][(Len(points) = 2 /\ ~reticle.visible /\ lastOp' # "reset") =>
            ~reticle'.visible]_vars

\* C6 witness: a frame with a hit arrived with two points captured and the
\* reticle is hidden.
C6_Witness ==
    /\ lastOp = "frame"
    /\ lastFrame = "hit"
    /\ Len(points) = 2
    /\ ~reticle.visible

\* C7 (as claimed): after every frame processed while the running session's
\* hit-test acquisition is unresolved, the reticle is hidden and the phase
\* is AWAITING_SURFACE.
C7_HiddenUntilAcquired ==
    (lastOp = "frame" /\ xrSession \in pending) =>
        (~reticle.visible /\ Phase = "AWAITING_SURFACE")

\* C8: with two points captured, the distance label is the distance between
\* the two stored points times the factor of the selected unit, to 2
\* decimals.
C8_DistanceShown ==
    Len(points) = 2 =>
        distLabel = toFixed2(distanceTo(points[1].vec, points[2].vec)
                                 * UnitFactor(measureUnit)[1],
                             1000 * UnitFactor(measureUnit)[2])

\* C8 witness: the unit was changed to inches with points 1 m apart.
C8_Witness ==
    /\ lastOp = "unit"
    /\ Len(points) = 2
    /\ measureUnit = "in"
    /\ distLabel = "39.37"

\* C9: with fewer than 2 points the distance label is "0.00"; with exactly
\* one point the point-1 label is that point's formatted position, and a
\* unit change does not alter it.
C9_PlaceholderBeforeComplete ==
    /\ [](Len(points) < 2 => distLabel = "0.00")
    /\ [](Len(points) = 1 => p1Label = formatCoord(points[1].vec))
    /\ [][lastOp' = "unit" => p1Label' = p1Label]_vars

\* C9 witness: the unit was changed to feet with one point captured.
C9_Witness ==
    /\ lastOp = "unit"
    /\ Len(points) = 1
    /\ measureUnit = "ft"
    /\ p1Label = "(0.00, 0.26, -0.70)"
    /\ distLabel = "0.00"

\* C10: a unit change leaves the points, the markers and line, the reticle,
\* the coordinate labels and the action button unchanged.
C10_UnitChangeFrame ==
    [][lastOp' = "unit" =>
          UNCHANGED <<points, scene, measurementLine, reticle, p1Label,
                      p2Label, actionBtn>>]_vars

\* C10 witness: a unit change with two points captured changed the label.
C10_Witness ==
    /\ lastOp = "unit"
    /\ Len(points) = 2
    /\ measureUnit = "cm"
    /\ distLabel = "125.00"

\* The text the page shows in each phase where script.js enters it: after a
\* frame without hits, after a frame with a hit, after point 1 is captured,
\* after a frame without hits with point 1 captured, and after point 2.
PhaseText ==
    CASE Phase = "AWAITING_SURFACE" -> "Aim at floor/wall to detect surface."
      [] Phase = "AIMING_P1"        -> "Surface detected. Tap 'Set Point 1'."
      [] Phase = "AIMING_P2"        -> "Move camera to target. Tap 'Set Point 2'."
      [] Phase = "POINT1_SET"       -> "Aim at floor/wall to detect surface."
      [] Phase = "COMPLETE"         -> "Measurement Complete."

\* C11 (as claimed): the instruction text is a function of the point count
\* and the reticle's visibility, so every state shows the text that the
\* handlers write on entering its phase.
C11_TextFollowsPhase ==
    instructionText = PhaseText

\* C12: the action button is disabled exactly when 2 points are captured;
\* it reads "Set Point 2" with 1 point, "Complete" with 2, and "Set Point 1"
\* with 0 points after a reset.
C12_ButtonFollowsCount ==
    /\ actionBtn.disabled <=> (Len(points) = 2)
    /\ Len(points) = 1 => actionBtn.innerText = "Set Point 2"
    /\ Len(points) = 2 => actionBtn.innerText = "Complete"
    /\ (Len(points) = 0 /\ lastOp = "reset") =>
           actionBtn.innerText = "Set Point 1"

\* C12 witness: a press of the action button captured the second point and
\* the button is now disabled and reads "Complete".
C12_Witness ==
    /\ lastOp = "button"
    /\ Len(points) = 2
    /\ actionBtn.disabled
    /\ actionBtn.innerText = "Complete"

----------------------------------------------------------------------------
(* Sessions in which no frame ever yields a hit-test result *)

\* render with a frame whose hit-test results are empty.
FrameNoHit ==
    /\ xrSession # NoSession
    /\ Apply(render(S, xrSession, <<>>))
    /\ Ran("frame", HitTestOutcome(requestHitTestSource(S, xrSession),
                                    xrSession, <<>>))
    /\ UNCHANGED <<xrSession, sessionsStarted>>

\* Frame updates and user actions only (no reset), no frame with a hit.
NextNoHit ==
    \/ StartSession
    \/ FrameNoHit
    \/ Select
    \/ ActionButton
    \/ UnitChange
    \/ SessionEnd
    \/ ResolveHitTestSource

SpecNoHit == Init /\ [][NextNoHit]_vars

\* C13: while no frame yields a hit, no point is captured and the
\* instruction stays the surface-not-detected text.
C13_NothingWithoutSurface ==
    /\ Len(points) = 0
    /\ ~reticle.visible
    /\ instructionText = "Aim at floor/wall to detect surface."

\* C13 witness: a user action after a frame that asked the session's
\* hit-test source and got no result.
C13_Witness ==
    /\ lastOp \in UserAction
    /\ xrSession # NoSession
    /\ hitTestSource = xrSession
    /\ Len(points) = 0

\* C14: for points at (0,0,0) and (1,0,0) metres, in either capture order,
\* the distance label is "1.00" in m, "100.00" in cm, "39.37" in in and
\* "3.28" in ft; and for any two points the label is the one computed with
\* the points in the other order.
C14_UnitValues ==
    Len(points) = 2 =>
        /\ {points[1].vec, points[2].vec} = {<<0, 0, 0>>, <<1000, 0, 0>>} =>
              distLabel = CASE measureUnit = "m"  -> "1.00"
                            [] measureUnit = "cm" -> "100.00"
                            [] measureUnit = "in" -> "39.37"
                            [] measureUnit = "ft" -> "3.28"
        /\ distLabel = calculateDistance(
                          [S EXCEPT !.points = <<points[2], points[1]>>]).distLabel

\* C14 witness: (1,0,0) captured first, (0,0,0) second, shown in feet.
C14_Witness ==
    /\ Len(points) = 2
    /\ points[1].vec = <<1000, 0, 0>>
    /\ points[2].vec = <<0, 0, 0>>
    /\ measureUnit = "ft"
    /\ distLabel = "3.28"

\* C15: no session has more than one hit-test source request or more than
\* one 'end' listener, and once a session has processed a frame it has
\* exactly one of each (so the first frame after an 'end' asks again).
C15_OneRequestPerSession ==
    /\ \A s \in Sessions : hitTestRequests[s] <= 1 /\ endListeners[s] <= 1
    /\ lastOp = "frame" =>
          hitTestRequests[xrSession] = 1 /\ endListeners[xrSession] = 1

\* C15 witness: the second session has processed frames after the first
\* session, which had asked for its source, ended.
C15_Witness ==
    /\ lastOp = "frame"
    /\ xrSession = 2
    /\ hitTestRequests[1] = 1
    /\ hitTestRequests[2] = 1
    /\ lastFrame = "hit"

\* C16: with one point captured and the reticle visible, a user action
\* captures point 2 at the reticle's position; and a user action that
\* directly follows the user action that captured point 1 (no frame in
\* between) captures point 2 at the same position, with distance "0.00".
C16_SecondCaptureWithoutFrame ==
    /\ [][(lastOp' \in UserAction /\ Len(points) = 1 /\ reticle.visible) =>
            /\ Len(points') = 2
            /\ points'[2].vec = reticle.matrix
            /\ actionBtn'.innerText = "Complete"]_vars
    /\ [][(lastOp \in UserAction /\ preLen = 0 /\ Len(points) = 1
              /\ lastOp' \in UserAction) =>
            /\ Len(points') = 2
            /\ points'[2].vec = points'[1].vec
            /\ distLabel' = "0.00"]_vars

\* C16 witness: a tap captured point 2 where point 1 is, and the distance
\* shown is "0.00".
C16_Witness ==
    /\ lastOp = "select"
    /\ preLen = 1
    /\ Len(points) = 2
    /\ points[1].vec = points[2].vec
    /\ points[1].vec # <<0, 0, 0>>
    /\ distLabel = "0.00"

\* C17: every point a step adds is stored at the position the reticle had
\* when the step began; and no step other than a reset changes a stored
\* position or the point-1 label of a captured point 1.
C17_PointsAreSnapshots ==
    /\ [][\A i \in Len(points) + 1 .. Len(points') :
            lastOp' \in UserAction /\ points'[i].vec = reticle.matrix]_vars
    /\ [][lastOp' # "reset" =>
            /\ \A i \in 1 .. Len(points) :
                  Len(points') >= i /\ points'[i].vec = points[i].vec
            /\ Len(points) >= 1 => p1Label' = p1Label]_vars

\* C17 witness: with point 1 captured, a later frame has moved the reticle
\* elsewhere and point 1 and its label are where they were.
C17_Witness ==
    /\ lastOp = "frame"
    /\ lastFrame = "hit"
    /\ Len(points) = 1
    /\ reticle.matrix # points[1].vec
    /\ p1Label = formatCoord(points[1].vec)

\* C18 (as claimed): one press of the action button captures at most one
\* point.
C18_OnePressOneCapture ==
    lastOp = "button" => Len(points) <= preLen + 1

\* C19 (as claimed): hitTestSource is null or the source requested by the
\* running session; a resolution that arrives after its session's 'end'
\* event installs nothing.
C19_SourceOfRunningSession ==
    hitTestSource # NoSource =>
        (xrSession # NoSession /\ hitTestSource = xrSession)

\* C20: the markers in the scene are exactly the markers of the captured
\* points, one per point; a line is in the scene exactly when 2 points are
\* captured, it is measurementLine, and there is never more than one.
C20_SceneMatchesPoints ==
    /\ {o \in scene : o.kind = "mesh"} =
           {points[i].mesh : i \in 1 .. Len(points)}
    /\ Cardinality({o \in scene : o.kind = "mesh"}) = Len(points)
    /\ Cardinality({o \in scene : o.kind = "line"}) =
           (IF Len(points) = 2 THEN 1 ELSE 0)
    /\ (measurementLine \in scene) <=> (Len(points) = 2)

\* C20 witness: a second measurement is complete after a reset of a first
\* complete one (one press of the button captured both points of it).
C20_Witness ==
    /\ lastOp = "button"
    /\ preLen = 0
    /\ Len(points) = 2
    /\ Cardinality(scene) = 3

====
